---- MODULE Spec2Model ----
(***************************************************************************)
(* A model of the cli-command-docs upgradelet of ngx-deps-upgrade:         *)
(*   src/lib/aio/upgrade-cli-src.ts  (Upgradelet)                          *)
(*   src/lib/utils/git-repo.ts       (GitRepo)                             *)
(*                                                                         *)
(* Strings are modelled as sequences of tokens, so that startsWith, slice  *)
(* and concatenation are computed and not assumed.  A sha is a sequence of *)
(* hex digits, a branch name is the concatenation the code builds.         *)
(*                                                                         *)
(* shelljs runs with `sh.set('-e')` (upgrade-cli-src.ts:13): a failing     *)
(* shell or git command throws.  Every remote call either resolves or      *)
(* rejects.  Which of them fail is chosen nondeterministically.            *)
(***************************************************************************)
EXTENDS Integers, Sequences, FiniteSets, TLC

\* ------------------------------------------------------------------ bounds
\* Number of distinct upstream tips the tracked upstream branch moves through.
MaxTips == 3
\* Number of pull requests the tracker can hold (no run starts when it is full).
MaxPrs == 3
\* How many hex digits longer than SHA_LEN a full upstream sha is.
ExtraShaLen == 1

\* Number of git commands a GitRepo taken on its own runs before it is
\* destroyed.
MaxGitCommands == 2

\* --------------------------------------------------------------- constants
\* cliSrcSha.slice(0, 9)
SHA_LEN == 9

NoError == "none"

LOCAL_BRANCH_PREFIX == <<"upgrade-cli-src">>
COMMIT_MESSAGE_PREFIX == <<"build(docs-infra): upgrade cli command docs sources to ">>
HELP_PREFIX == <<"help/">>
DefaultBranch == <<"master">>
\* A branch of origin that is not of this automation: its name holds the
\* prefix, but not at its start.
ForeignBranch == <<"my-">> \o LOCAL_BRANCH_PREFIX \o <<"--">> \o DefaultBranch

\* ----------------------------------------------------------------- strings
Min(a, b) == IF a < b THEN a ELSE b

\* String.prototype.startsWith
StartsWith(s, p) == Len(p) <= Len(s) /\ SubSeq(s, 1, Len(p)) = p

\* String.prototype.slice(0, n)
Slice(s, n) == SubSeq(s, 1, Min(n, Len(s)))

\* Array.prototype.includes
Includes(seq, x) == \E i \in 1..Len(seq) : seq[i] = x

\* Array.prototype.reduce((aggr, prs) => aggr.concat(prs), [])
RECURSIVE Flatten(_)
Flatten(seqs) == IF seqs = <<>> THEN <<>> ELSE Head(seqs) \o Flatten(Tail(seqs))

\* All orders in which the elements of a finite set can be listed.
RECURSIVE Perms(_)
Perms(S) ==
  IF S = {} THEN {<<>>} ELSE UNION {{<<x>> \o p : p \in Perms(S \ {x})} : x \in S}

\* The tokens branch names are made of, in the order of the texts they stand
\* for ('-' before the letters, 'ma' before 'my', 'u' last).
TokenOrder == <<"--", "a", "b", "c", "master", "my-", "upgrade-cli-src">>
TokenRank(t) == CHOOSE k \in 1..Len(TokenOrder) : TokenOrder[k] = t

\* s comes before t in the order of names.
NameBefore(s, t) ==
  \/ Len(s) < Len(t) /\ s = SubSeq(t, 1, Len(s))
  \/ \E k \in 1..Min(Len(s), Len(t)) :
       /\ SubSeq(s, 1, k - 1) = SubSeq(t, 1, k - 1)
       /\ TokenRank(s[k]) < TokenRank(t[k])

\* The lines `git branch --remote` prints for the branches S of the remote:
\* git lists branches sorted by name.
RECURSIVE GitBranchOutput(_)
GitBranchOutput(S) ==
  IF S = {} THEN <<>>
  ELSE LET first == CHOOSE x \in S : \A y \in S \ {x} : NameBefore(x, y)
       IN <<first>> \o GitBranchOutput(S \ {first})

\* ------------------------------------------------------------------- input
\* The i-th upstream tip: a full-length sha, distinct from the others within
\* its first SHA_LEN digits.
Tip(i) == [j \in 1..(SHA_LEN + ExtraShaLen) |-> IF j = i THEN "b" ELSE "a"]

\* A sha recorded in aio/package.json before any of the tips existed.
OldSha == [j \in 1..7 |-> "c"]

\* Lists of changed files that getAffectedFiles may answer with.
HelpFile == <<"help/", "build.json">>
HelperFile == <<"helper", "/x.ts">>
OtherFile == <<"docs/", "x.md">>
AffectedChoices == {<<>>, <<OtherFile, HelperFile>>, <<OtherFile, HelpFile>>}

\* A full-length sha that differs from the i-th tip in its last digit only,
\* that is, behind the first SHA_LEN digits.
TipTail(i) == [Tip(i) EXCEPT ![SHA_LEN + ExtraShaLen] = "c"]

\* A full-length sha that differs from every tip within its first digit.
NoTip == [j \in 1..(SHA_LEN + ExtraShaLen) |-> "c"]

\* The shas, abbreviated to any length or not at all, that the check is tried
\* on as the one recorded in aio/package.json.
InputShas ==
  {Slice(s, n) : s \in {Tip(i) : i \in 1..MaxTips} \cup {TipTail(i) : i \in 1..MaxTips}
                        \cup {NoTip},
                 n \in 1..(SHA_LEN + ExtraShaLen)}

\* ------------------------------------------------------------------- state
VARIABLES
  \* the remote systems
  tipIdx,          \* index of the tip of the tracked branch of cli-builds
  aioSha,          \* sha the script in upstream's aio/package.json ends with
  originBranches,  \* branch names on the origin remote
  prs,             \* pull requests of the upstream repo, by number
  \* the machine the upgradelet runs on
  ci,              \* process.env.CI
  credFile,        \* CREDENTIALS_PATH exists
  repoDir,         \* the local working copy's directory exists
  \* one run of checkAndUpgrade
  pc,
  currentSha, latestSha, needsUpgrade,
  destroyed,       \* GitRepo.destroyed of localRepo
  headBranch,      \* GitRepo.currentBranch of localRepo (<<>>: none yet)
  localCommit,     \* message of the commit made in localRepo (<<>>: none)
  relevantBranches,
  openPrsPerBranch,
  supercededPrs,
  newPr,           \* number of the PR submitted by this run (0: none)
  err,             \* the error that sent the run to its catch block
  thrown,          \* the error checkAndUpgrade rejected with
  result,          \* "none", "resolved" or "rejected"
  log              \* calls made by this run, in order

envVars == <<tipIdx, aioSha, originBranches, prs, ci, credFile, repoDir>>
runVars == <<pc, currentSha, latestSha, needsUpgrade, destroyed, headBranch, localCommit,
             relevantBranches, openPrsPerBranch, supercededPrs, newPr, err, thrown,
             result, log>>
vars == <<envVars, runVars>>

\* One call of the run: what was called, on what, and whether it succeeded.
Call(op, arg, ok) == [op |-> op, arg |-> arg, ok |-> ok]

\* The calls of a straight-line block of which the f-th throws (0: none does).
Calls(ops, f) ==
  [i \in 1..(IF f = 0 THEN Len(ops) ELSE f) |-> Call(ops[i][1], ops[i][2], i # f)]

Called(op) == \E i \in 1..Len(log) : log[i].op = op
CalledOk(op) == \E i \in 1..Len(log) : log[i].op = op /\ log[i].ok

\* `${LOCAL_BRANCH_PREFIX}--${branch}--${latestSha}`
LocalBranchName(branch, sha) == LOCAL_BRANCH_PREFIX \o <<"--">> \o branch \o <<"--">> \o sha

\* `${COMMIT_MESSAGE_PREFIX}${latestSha}`
CommitMsgSubject(sha) == COMMIT_MESSAGE_PREFIX \o sha

localBranch == LocalBranchName(DefaultBranch, latestSha)
commitMsgSubject == CommitMsgSubject(latestSha)

Init ==
  /\ tipIdx = 1
  /\ aioSha \in {OldSha, Slice(Tip(1), 7)}
  /\ originBranches = {DefaultBranch, ForeignBranch}
  /\ prs = <<>>
  /\ ci \in BOOLEAN
  /\ credFile = FALSE
  /\ repoDir = FALSE
  /\ pc = "idle"
  /\ currentSha = <<>>
  /\ latestSha = <<>>
  /\ needsUpgrade = FALSE
  /\ destroyed = FALSE
  /\ headBranch = <<>>
  /\ localCommit = <<>>
  /\ relevantBranches = <<>>
  /\ openPrsPerBranch = <<>>
  /\ supercededPrs = <<>>
  /\ newPr = 0
  /\ err = NoError
  /\ thrown = NoError
  /\ result = "none"
  /\ log = <<>>

\* ------------------------------------------------------------ pure helpers
\* shasMatch accepting equal shas only.
shasMatchExact(sha1, sha2) == sha1 = sha2

\* shasMatch without its second disjunct.
shasMatchOneWay(sha1, sha2) == StartsWith(sha1, sha2)

\* shasMatch(sha1, sha2)
shasMatch(sha1, sha2) == StartsWith(sha1, sha2) \/ StartsWith(sha2, sha1)

\* didHelpChange true of any changed file.
didAnyFileChange(affectedFiles) == affectedFiles # <<>>

\* affectedFiles.some(file => file.filename.startsWith('help/'))
didHelpChange(affectedFiles) ==
  \E i \in 1..Len(affectedFiles) : StartsWith(affectedFiles[i], HELP_PREFIX)

\* What checkNeedsUpgrade(branch) does when aio/package.json records cur, the
\* tip of cli-builds is `full`, the changed files between the two are
\* affectedFiles, and its failAt-th request is rejected (0: none; 1
\* retrieveShaFromAio, 2 retrieveShaFromCliBuilds, 3 getAffectedFiles): the
\* requests it makes, the error it ends with and the results it returns.
\* The arg of a request is what the remote answers it with.
checkNeedsUpgrade(cur, full, affectedFiles, failAt) ==
  LET latest == Slice(full, SHA_LEN)
      differ == ~shasMatch(cur, latest)
      ops == <<<<"getFileContents", cur>>, <<"getLatestSha", full>>>>
             \o (IF differ THEN <<<<"getAffectedFiles", affectedFiles>>>> ELSE <<>>)
  IN [calls |-> Calls(ops, failAt),
      err |-> IF failAt = 0 THEN NoError ELSE ops[failAt][1],
      \* the caller gets the results only if nothing was thrown
      currentSha |-> IF failAt # 0 THEN <<>> ELSE cur,
      latestSha |-> IF failAt # 0 THEN <<>> ELSE latest,
      needsUpgrade |-> (failAt = 0 /\ differ /\ didHelpChange(affectedFiles))]

\* reportError without the `if (!REPORT_ERRORS) return`.
reportErrorAlways(reportErrors, e, issueOk) == <<Call("createIssue", e, issueOk)>>

\* The calls reportError(actionDescription, err) makes: none unless
\* REPORT_ERRORS, else one createIssue on this tool's own repository.
reportError(reportErrors, e, issueOk) ==
  IF reportErrors THEN <<Call("createIssue", e, issueOk)>> ELSE <<>>

\* ignoreError without its try/catch: the error of fn escapes.
ignoreErrorRethrows(e) == e

\* The error that escapes `await this.ignoreError(fn)` when fn ends with e.
ignoreError(e) == NoError

\* The error a block of statements ends with: that of the first one that throws.
FirstError(errs) ==
  IF \E i \in 1..Len(errs) : errs[i] # NoError
  THEN errs[CHOOSE i \in 1..Len(errs) :
              errs[i] # NoError /\ \A j \in 1..(i - 1) : errs[j] = NoError]
  ELSE NoError

\* upstreamRepo.getPullRequests({head: `${owner}:${branch}`, state: 'all'})
getPullRequests(branch) == SelectSeq(prs, LAMBDA pr : pr.head = branch)

\* upstreamRepo.createPullRequest(head, base, title): the tracker afterwards.
createPullRequest(tracker, head, title) ==
  Append(tracker, [number |-> Len(tracker) + 1, head |-> head, title |-> title,
                   state |-> "open", comments |-> {}])

\* upstreamRepo.comment(number, text): the tracker afterwards.
comment(tracker, number, text) ==
  [tracker EXCEPT ![number].comments = @ \cup {text}]

\* The comment calls made one after the other, each awaited before the next
\* is made: none is made after the first that is rejected.
CommentCallsAwaitedInTurn(superceded, newNumber, failing) ==
  LET n == IF \E i \in 1..Len(superceded) : i \in failing
           THEN CHOOSE i \in 1..Len(superceded) :
                  i \in failing /\ \A j \in 1..(i - 1) : j \notin failing
           ELSE Len(superceded)
  IN [i \in 1..n |-> Call("comment", <<superceded[i].number, newNumber>>, i \notin failing)]

\* The calls `supercededPrs.map(pr => this.upstreamRepo.comment(pr.number,
\* comment))` makes: map calls comment for every PR before Promise.all awaits
\* any of them; those at the positions `failing` are rejected.
CommentCalls(superceded, newNumber, failing) ==
  [i \in 1..Len(superceded) |->
     Call("comment", <<superceded[i].number, newNumber>>, i \notin failing)]

\* commentOnSupercededPrs closing each superceded PR it comments on.
commentOnSupercededPrsClosing(tracker, superceded, newNumber, failing) ==
  [n \in 1..Len(tracker) |->
     IF \E i \in 1..Len(superceded) : i \notin failing /\ superceded[i].number = n
     THEN [tracker[n] EXCEPT !.state = "closed",
                             !.comments = @ \cup {<<"Superceded by #", newNumber>>}]
     ELSE tracker[n]]

\* commentOnSupercededPrs(supercededPrs, newPr): the tracker after the calls
\* `supercededPrs.map(pr => this.upstreamRepo.comment(pr.number, comment))`
\* of which those at the positions `failing` are rejected.
RECURSIVE CommentAll(_, _, _, _, _)
CommentAll(tracker, superceded, newNumber, failing, i) ==
  IF i > Len(superceded) THEN tracker
  ELSE CommentAll(IF i \in failing THEN tracker
                  ELSE comment(tracker, superceded[i].number, <<"Superceded by #", newNumber>>),
                  superceded, newNumber, failing, i + 1)
commentOnSupercededPrs(tracker, superceded, newNumber, failing) ==
  CommentAll(tracker, superceded, newNumber, failing, 1)

\* title.startsWith(COMMIT_MESSAGE_PREFIX)
IsRelevantPr(pr) == StartsWith(pr.title, COMMIT_MESSAGE_PREFIX)

\* state === 'open'
IsOpenPr(pr) == pr.state = "open"

\* Promise.all handing out the values in the order the promises resolved.
PromiseAllAsCompleted(values, completion) ==
  [k \in 1..Len(values) |-> values[completion[k]]]

\* await Promise.all(promises): the array it resolves with when the i-th
\* promise resolves with values[i] and the promises resolve in the order
\* `completion`: each value is stored at the index of its promise.
PromiseAll(values, completion) ==
  [i \in 1..Len(values) |->
     values[completion[CHOOSE k \in 1..Len(values) : completion[k] = i]]]

\* getOpenPrsPerBranch(branches): the entries of the Map, in insertion order,
\* when the queries complete in the order `completion`.
getOpenPrsPerBranch(branches, completion) ==
  LET prsForBranches ==
        PromiseAll([i \in 1..Len(branches) |-> getPullRequests(branches[i])], completion)
      relevantPrsForBranches ==
        [i \in 1..Len(branches) |-> SelectSeq(prsForBranches[i], IsRelevantPr)]
      entries ==
        [i \in 1..Len(branches) |->
           [branch |-> branches[i], prs |-> SelectSeq(relevantPrsForBranches[i], IsOpenPr)]]
  IN SelectSeq(entries, LAMBDA e : Len(e.prs) > 0)

\* Array.from(openPrsPerBranch.keys())
MapKeys(map) == [i \in 1..Len(map) |-> map[i].branch]

\* Array.from(openPrsPerBranch.values())
MapValues(map) == [i \in 1..Len(map) |-> map[i].prs]

\* openPrsPerBranch.get(branch)!
MapGet(map, branch) == map[CHOOSE i \in 1..Len(map) : map[i].branch = branch].prs

\* The filter of line 67 letting every branch pass.
IsAnyBranch(branchName) == TRUE

\* branchName.startsWith(LOCAL_BRANCH_PREFIX)
IsRelevantBranch(branchName) == StartsWith(branchName, LOCAL_BRANCH_PREFIX)

\* cleanupObsoleteBranches leaving out the last branch without open PRs.
BranchesWithoutOpenPrsButLast(branches, branchesWithOpenPrs) ==
  LET all == SelectSeq(branches, LAMBDA b : ~Includes(branchesWithOpenPrs, b))
  IN SubSeq(all, 1, Len(all) - 1)

\* cleanupObsoleteBranches without the filter on branchesWithOpenPrs.
BranchesAll(branches, branchesWithOpenPrs) == branches

\* branches.filter(branch => !branchesWithOpenPrs.includes(branch))
BranchesWithoutOpenPrs(branches, branchesWithOpenPrs) ==
  SelectSeq(branches, LAMBDA b : ~Includes(branchesWithOpenPrs, b))

\* The check for an existing PR never finding one.
PrNeverExists(branchesWithOpenPrs, branch) == FALSE

\* relevantBranchesWithOpenPrs.includes(localBranch)
PrAlreadyExists(branchesWithOpenPrs, branch) == Includes(branchesWithOpenPrs, branch)

\* Array.from(openPrsPerBranch.values()).reduce((aggr, prs) => aggr.concat(prs), [])
SupercededPrs(map) == Flatten(MapValues(map))

\* String.prototype.trim on a text given as its lines (<<>> is an empty line).
RECURSIVE TrimEnd(_)
TrimEnd(lines) ==
  IF lines # <<>> /\ lines[Len(lines)] = <<>>
  THEN TrimEnd(SubSeq(lines, 1, Len(lines) - 1)) ELSE lines
RECURSIVE TrimStart(_)
TrimStart(lines) ==
  IF lines # <<>> /\ Head(lines) = <<>> THEN TrimStart(Tail(lines)) ELSE lines
Trim(lines) == TrimStart(TrimEnd(lines))

\* supercededPrs.map(pr => `Closes #${pr.number}`).join('\n'), as lines
ClosesLines(superceded) ==
  IF superceded = <<>> THEN << <<>> >>
  ELSE [i \in 1..Len(superceded) |-> <<"Closes #", superceded[i].number>>]

\* The commit message without the final trim().
CommitMsgUntrimmed(subject, superceded) == <<subject, <<>>>> \o ClosesLines(superceded)

\* `${commitMsgSubject}\n\n${...}`.trim(), as lines
CommitMsg(subject, superceded) == Trim(<<subject, <<>>>> \o ClosesLines(superceded))

\* ------------------------------------------------------------- one run
\* A try body that goes on to its next block whether or not the last threw.
ContinueRegardless(e, next) ==
  /\ err' = e
  /\ pc' = next

\* A block of the try body has ended: with error e it continues in the catch
\* block, without one at `next`.
Continue(e, next) ==
  /\ err' = e
  /\ pc' = IF e = NoError THEN next ELSE "catch"

\* `return` from the try body.
Resolve ==
  /\ pc' = "done"
  /\ result' = "resolved"
  /\ UNCHANGED <<err, thrown>>

\* A process is started for checkAndUpgrade({branch}).
StartRun ==
  /\ pc = "idle"
  /\ Len(prs) < MaxPrs
  /\ pc' = "check"
  /\ UNCHANGED <<envVars, currentSha, latestSha, needsUpgrade, destroyed, headBranch,
                 localCommit, relevantBranches, openPrsPerBranch, supercededPrs, newPr,
                 err, thrown, result, log>>

\* checkNeedsUpgrade(branch) and the `if (!needsUpgrade)` that follows it.
\* failAt: 0 nothing fails, 1 retrieveShaFromAio, 2 retrieveShaFromCliBuilds,
\* 3 getAffectedFiles.
CheckNeedsUpgrade ==
  /\ pc = "check"
  /\ \E failAt \in 0..3, affectedFiles \in AffectedChoices :
       LET r == checkNeedsUpgrade(aioSha, Tip(tipIdx), affectedFiles, failAt)
           queried == ~shasMatch(aioSha, Slice(Tip(tipIdx), SHA_LEN))
       IN /\ failAt <= (IF queried THEN 3 ELSE 2)
          \* the answer of a request that is not made or is rejected is no input
          /\ (failAt # 0 \/ ~queried) => affectedFiles = <<>>
          /\ log' = log \o r.calls
          /\ currentSha' = r.currentSha
          /\ latestSha' = r.latestSha
          /\ needsUpgrade' = r.needsUpgrade
          /\ IF r.err # NoError
             THEN /\ Continue(r.err, "catch")
                  /\ UNCHANGED <<thrown, result>>
             ELSE IF ~r.needsUpgrade
                  THEN Resolve
                  ELSE /\ Continue(NoError, "init")
                       /\ UNCHANGED <<thrown, result>>
  /\ UNCHANGED <<envVars, destroyed, headBranch, localCommit, relevantBranches,
                 openPrsPerBranch, supercededPrs, newPr>>

\* initLocalRepo without the block of `if (process.env.CI)`.
CredentialsNeverWritten(onCi, failAt) == FALSE

\* initLocalRepo has written CREDENTIALS_PATH: on CI, unless a git command
\* before the writeFileSync threw (failAt = 1).
CredentialsWritten(onCi, failAt) == onCi /\ failAt # 1

\* initLocalRepo(): the directory is made afresh, the repository initialized
\* and its remotes added; on CI the credentials file is written and git is
\* configured.  failAt: 0 nothing fails, 1 a git command before the
\* credentials are written, 2 (on CI) chmod or git config after they are.
InitLocalRepo ==
  /\ pc = "init"
  /\ \E failAt \in 0..2 :
       /\ failAt = 2 => ci
       /\ repoDir' = TRUE
       /\ destroyed' = FALSE
       /\ credFile' = IF CredentialsWritten(ci, failAt) THEN TRUE ELSE credFile
       /\ log' = log \o Calls(<<<<"initLocalRepo", <<>>>>>>, IF failAt = 0 THEN 0 ELSE 1)
       /\ Continue(IF failAt = 0 THEN NoError ELSE "initLocalRepo", "list")
  /\ UNCHANGED <<tipIdx, aioSha, originBranches, prs, ci, currentSha, latestSha,
                 needsUpgrade, headBranch, localCommit, relevantBranches,
                 openPrsPerBranch, supercededPrs, newPr, thrown, result>>

\* localRepo.getRemoteBranches(ORIGIN).filter(startsWith(LOCAL_BRANCH_PREFIX)):
\* a shallow fetch of origin, then the branches `git branch --remote` lists,
\* in the order git prints them.  That order is not the order in which the
\* branches were pushed: the sha in the name decides.
ListBranches ==
  /\ pc = "list"
  /\ \E ok \in BOOLEAN :
       /\ log' = Append(log, Call("getRemoteBranches", <<>>, ok))
       /\ IF ok
          THEN relevantBranches' =
                 SelectSeq(GitBranchOutput(originBranches), IsRelevantBranch)
          ELSE UNCHANGED relevantBranches
       /\ Continue(IF ok THEN NoError ELSE "getRemoteBranches", "query")
  /\ UNCHANGED <<envVars, currentSha, latestSha, needsUpgrade, destroyed, headBranch,
                 localCommit, openPrsPerBranch, supercededPrs, newPr, thrown, result>>

\* await this.getOpenPrsPerBranch(relevantBranches): one query per branch,
\* all made before any is awaited, joined by Promise.all, which rejects when
\* a query does; `failing` are the positions whose query is rejected.
GetOpenPrsPerBranch ==
  /\ pc = "query"
  /\ \E failing \in SUBSET (1..Len(relevantBranches)),
        completion \in Perms(1..Len(relevantBranches)) :
       LET e == FirstError([k \in 1..Len(relevantBranches) |->
                              IF completion[k] \in failing THEN "getPullRequests"
                              ELSE NoError])
       IN \* the order of completion is no input of a batch one query of which is rejected
          /\ failing # {} => \A k \in 1..Len(completion) : completion[k] = k
          /\ log' = log \o [i \in 1..Len(relevantBranches) |->
                              Call("getPullRequests", relevantBranches[i], i \notin failing)]
          /\ openPrsPerBranch' =
               IF e = NoError THEN getOpenPrsPerBranch(relevantBranches, completion)
               ELSE openPrsPerBranch
          /\ Continue(e, "cleanup")
  /\ UNCHANGED <<envVars, currentSha, latestSha, needsUpgrade, destroyed, headBranch,
                 localCommit, relevantBranches, supercededPrs, newPr, thrown, result>>

\* The error localRepo.deleteRemoteBranch(ORIGIN, branch) ends with when the
\* `git push origin :branch` it runs fails with pushErr.
deleteRemoteBranch(pushErr) == pushErr

\* this.cleanupObsoleteBranches(localRepo, relevantBranches, withOpenPrs):
\* forEach over the branches without open PRs; `failing` are the positions
\* whose push would fail.  forEach stops at the first callback that throws.
CleanupObsoleteBranches ==
  /\ pc = "cleanup"
  /\ LET obsolete == BranchesWithoutOpenPrs(relevantBranches, MapKeys(openPrsPerBranch))
     IN \E failing \in SUBSET (1..Len(obsolete)) :
          LET pushOk(i) == i \notin failing
              attempts == [i \in 1..Len(obsolete) |->
                             deleteRemoteBranch(IF pushOk(i) THEN NoError
                                                ELSE "deleteRemoteBranch")]
              e == FirstError(attempts)
              made == IF e = NoError THEN Len(obsolete)
                      ELSE CHOOSE i \in 1..Len(obsolete) :
                             attempts[i] # NoError /\ \A j \in 1..(i - 1) : attempts[j] = NoError
          IN /\ \A i \in failing : i <= made
             /\ log' = log \o [i \in 1..made |->
                                 Call("deleteRemoteBranch", obsolete[i], pushOk(i))]
             /\ originBranches' =
                  originBranches \ {obsolete[i] : i \in {j \in 1..made : pushOk(j)}}
             /\ Continue(e, "existing")
  /\ UNCHANGED <<tipIdx, aioSha, prs, ci, credFile, repoDir, currentSha, latestSha,
                 needsUpgrade, destroyed, headBranch, localCommit, relevantBranches,
                 openPrsPerBranch, supercededPrs, newPr, thrown, result>>

\* `if (relevantBranchesWithOpenPrs.includes(localBranch)) { ...; return; }`
CheckExistingPr ==
  /\ pc = "existing"
  /\ IF PrAlreadyExists(MapKeys(openPrsPerBranch), localBranch)
     THEN /\ log' = Append(log, Call("reportExisting", MapGet(openPrsPerBranch, localBranch), TRUE))
          /\ Resolve
     ELSE /\ Continue(NoError, "createBranch")
          /\ UNCHANGED <<log, thrown, result>>
  /\ UNCHANGED <<envVars, currentSha, latestSha, needsUpgrade, destroyed, headBranch,
                 localCommit, relevantBranches, openPrsPerBranch, supercededPrs, newPr>>

\* this.createLocalBranch(localRepo, localBranch, branch):
\* fetch upstream <branch> --depth 1, then checkout FETCH_HEAD -b <localBranch>.
CreateLocalBranch ==
  /\ pc = "createBranch"
  /\ \E failAt \in 0..2 :
       LET ops == <<<<"fetchUpstream", DefaultBranch>>, <<"checkout", localBranch>>>>
       IN /\ log' = log \o Calls(ops, failAt)
          /\ headBranch' = IF failAt = 0 THEN localBranch ELSE headBranch
          /\ Continue(IF failAt = 0 THEN NoError ELSE ops[failAt][1], "makeChanges")
  /\ UNCHANGED <<envVars, currentSha, latestSha, needsUpgrade, destroyed, localCommit,
                 relevantBranches, openPrsPerBranch, supercededPrs, newPr, thrown, result>>

\* this.makeChanges(localRepo, currentSha, latestSha): sed on aio/package.json.
MakeChanges ==
  /\ pc = "makeChanges"
  /\ \E ok \in BOOLEAN :
       /\ log' = Append(log, Call("sed", latestSha, ok))
       /\ Continue(IF ok THEN NoError ELSE "sed", "commitAndPush")
  /\ UNCHANGED <<envVars, currentSha, latestSha, needsUpgrade, destroyed, headBranch,
                 localCommit, relevantBranches, openPrsPerBranch, supercededPrs, newPr,
                 thrown, result>>

\* supercededPrs and commitMsg are computed, then this.commitAndPush(localRepo,
\* commitMsg): commit --all, fetch origin --unshallow, push origin
\* <currentBranch>:<currentBranch> --force.
CommitAndPush ==
  /\ pc = "commitAndPush"
  /\ \E failAt \in 0..3 :
       LET superceded == SupercededPrs(openPrsPerBranch)
           commitMsg == CommitMsg(commitMsgSubject, superceded)
           ops == <<<<"commit", commitMsg>>, <<"fetchOrigin", <<>>>>, <<"push", headBranch>>>>
       IN /\ supercededPrs' = superceded
          /\ log' = log \o Calls(ops, failAt)
          /\ localCommit' = IF failAt = 1 THEN localCommit ELSE commitMsg
          /\ originBranches' = IF failAt = 0 THEN originBranches \cup {headBranch}
                               ELSE originBranches
          /\ Continue(IF failAt = 0 THEN NoError ELSE ops[failAt][1], "submit")
  /\ UNCHANGED <<tipIdx, aioSha, prs, ci, credFile, repoDir, currentSha, latestSha,
                 needsUpgrade, destroyed, headBranch, relevantBranches, openPrsPerBranch,
                 newPr, thrown, result>>

\* await this.submitPullRequest(localBranch, branch, commitMsgSubject):
\* createPullRequest, then addLabels under ignoreError.
SubmitPullRequest ==
  /\ pc = "submit"
  /\ \E created \in BOOLEAN, labelled \in BOOLEAN :
       LET number == Len(prs) + 1
           labelErr == ignoreError(IF labelled THEN NoError ELSE "addLabels")
       IN /\ created \/ labelled
          /\ IF created
             THEN /\ prs' = createPullRequest(prs, localBranch, commitMsgSubject)
                  /\ newPr' = IF labelErr = NoError THEN number ELSE newPr
                  /\ log' = log \o <<Call("createPullRequest", localBranch, TRUE),
                                     Call("addLabels", number, labelled)>>
                  /\ Continue(labelErr, "comment")
             ELSE /\ log' = Append(log, Call("createPullRequest", localBranch, FALSE))
                  /\ Continue("createPullRequest", "comment")
                  /\ UNCHANGED <<prs, newPr>>
  /\ UNCHANGED <<tipIdx, aioSha, originBranches, ci, credFile, repoDir, currentSha,
                 latestSha, needsUpgrade, destroyed, headBranch, localCommit,
                 relevantBranches, openPrsPerBranch, supercededPrs, thrown, result>>

\* await this.ignoreError(() => this.commentOnSupercededPrs(supercededPrs, newPr)):
\* one comment call per superceded PR, all issued before any is awaited;
\* `failing` are the positions whose call rejects.
CommentOnSupercededPrs ==
  /\ pc = "comment"
  /\ \E failing \in SUBSET (1..Len(supercededPrs)) :
       LET e == FirstError([i \in 1..Len(supercededPrs) |->
                              IF i \in failing THEN "comment" ELSE NoError])
       IN /\ log' = log \o CommentCalls(supercededPrs, newPr, failing)
          /\ prs' = commentOnSupercededPrs(prs, supercededPrs, newPr, failing)
          /\ Continue(ignoreError(e), "destroy")
  /\ UNCHANGED <<tipIdx, aioSha, originBranches, ci, credFile, repoDir, currentSha,
                 latestSha, needsUpgrade, destroyed, headBranch, localCommit,
                 relevantBranches, openPrsPerBranch, supercededPrs, newPr, thrown, result>>

\* await this.ignoreError(() => localRepo.destroy()), then the success message.
\* GitRepo.destroy: `if (!this.destroyed) { sh.rm('-rf', dir); this.destroyed = true; }`
DestroyLocalRepo ==
  /\ pc = "destroy"
  /\ \E rmOk \in BOOLEAN :
       LET e == ignoreError(IF destroyed \/ rmOk THEN NoError ELSE "destroy")
       IN /\ log' = log \o <<Call("destroy", <<>>, destroyed \/ rmOk)>>
                        \o (IF e = NoError THEN <<Call("reportSuccess", newPr, TRUE)>>
                            ELSE <<>>)
          /\ repoDir' = IF ~destroyed /\ rmOk THEN FALSE ELSE repoDir
          /\ destroyed' = (destroyed \/ rmOk)
          /\ IF e = NoError
             THEN Resolve
             ELSE /\ Continue(e, "done")
                  /\ UNCHANGED <<thrown, result>>
  /\ UNCHANGED <<tipIdx, aioSha, originBranches, prs, ci, credFile, currentSha, latestSha,
                 needsUpgrade, headBranch, localCommit, relevantBranches,
                 openPrsPerBranch, supercededPrs, newPr>>

\* The catch block of checkAndUpgrade: the credentials file is removed and the
\* error reported, both under ignoreError, and err is thrown again.
\* reportError files an issue only if REPORT_ERRORS (= !!process.env.CI).
CatchBlock ==
  /\ pc = "catch"
  /\ \E rmOk \in BOOLEAN, issueOk \in BOOLEAN :
       LET REPORT_ERRORS == ci
           rmErr == ignoreError(IF rmOk THEN NoError ELSE "rm")
           reportErr == ignoreError(IF REPORT_ERRORS /\ ~issueOk THEN "createIssue"
                                    ELSE NoError)
       IN /\ issueOk \/ REPORT_ERRORS
          \* rm -f of a file that does not exist succeeds
          /\ rmOk \/ credFile
          /\ credFile' = IF rmOk THEN FALSE ELSE credFile
          /\ log' = log \o <<Call("rmCredentials", <<>>, rmOk)>>
                        \o (IF rmErr # NoError THEN <<>>
                            ELSE reportError(REPORT_ERRORS, err, issueOk))
          /\ thrown' = FirstError(<<rmErr, reportErr, err>>)
          /\ result' = "rejected"
          /\ pc' = "done"
  /\ UNCHANGED <<tipIdx, aioSha, originBranches, prs, ci, repoDir, currentSha, latestSha,
                 needsUpgrade, destroyed, headBranch, localCommit, relevantBranches,
                 openPrsPerBranch, supercededPrs, newPr, err>>

\* --------------------------------------------------------- checkOnly
\* A process is started for checkOnly({branch}).
StartCheckOnly ==
  /\ pc = "idle"
  /\ pc' = "checkOnly"
  /\ UNCHANGED <<envVars, currentSha, latestSha, needsUpgrade, destroyed, headBranch,
                 localCommit, relevantBranches, openPrsPerBranch, supercededPrs, newPr,
                 err, thrown, result, log>>

\* The try body of checkOnly: `return !(await this.checkNeedsUpgrade(branch))
\* .needsUpgrade`; the boolean returned is the negation of needsUpgrade.
CheckOnly ==
  /\ pc = "checkOnly"
  /\ \E failAt \in 0..3, affectedFiles \in AffectedChoices :
       LET r == checkNeedsUpgrade(aioSha, Tip(tipIdx), affectedFiles, failAt)
           queried == ~shasMatch(aioSha, Slice(Tip(tipIdx), SHA_LEN))
       IN /\ failAt <= (IF queried THEN 3 ELSE 2)
          /\ (failAt # 0 \/ ~queried) => affectedFiles = <<>>
          /\ log' = log \o r.calls
          /\ currentSha' = r.currentSha
          /\ latestSha' = r.latestSha
          /\ needsUpgrade' = r.needsUpgrade
          /\ err' = r.err
          /\ IF r.err # NoError
             THEN /\ pc' = "checkOnlyCatch"
                  /\ UNCHANGED <<thrown, result>>
             ELSE /\ pc' = "checkOnlyDone"
                  /\ result' = "resolved"
                  /\ UNCHANGED thrown
  /\ UNCHANGED <<envVars, destroyed, headBranch, localCommit, relevantBranches,
                 openPrsPerBranch, supercededPrs, newPr>>

\* The catch block of checkOnly: the error is reported under ignoreError and
\* thrown again.
CheckOnlyCatch ==
  /\ pc = "checkOnlyCatch"
  /\ \E issueOk \in BOOLEAN :
       LET REPORT_ERRORS == ci
           calls == reportError(REPORT_ERRORS, err, issueOk)
           reportErr == ignoreError(IF \E i \in 1..Len(calls) : ~calls[i].ok
                                    THEN "createIssue" ELSE NoError)
       IN /\ issueOk \/ calls # <<>>
          /\ log' = log \o calls
          /\ thrown' = FirstError(<<reportErr, err>>)
          /\ result' = "rejected"
          /\ pc' = "checkOnlyDone"
  /\ UNCHANGED <<envVars, currentSha, latestSha, needsUpgrade, destroyed, headBranch,
                 localCommit, relevantBranches, openPrsPerBranch, supercededPrs, newPr,
                 err>>

\* The process of the run exits; its objects are gone, the files it left stay.
Return ==
  /\ pc \in {"done", "checkOnlyDone"}
  /\ pc' = "idle"
  /\ currentSha' = <<>>
  /\ latestSha' = <<>>
  /\ needsUpgrade' = FALSE
  /\ destroyed' = FALSE
  /\ headBranch' = <<>>
  /\ localCommit' = <<>>
  /\ relevantBranches' = <<>>
  /\ openPrsPerBranch' = <<>>
  /\ supercededPrs' = <<>>
  /\ newPr' = 0
  /\ err' = NoError
  /\ thrown' = NoError
  /\ result' = "none"
  /\ log' = <<>>
  /\ UNCHANGED envVars

\* ---------------------------------------------------- between two runs
\* A commit lands on the tracked branch of cli-builds.
AdvanceTip ==
  /\ pc = "idle"
  /\ tipIdx < MaxTips
  /\ tipIdx' = tipIdx + 1
  /\ UNCHANGED <<aioSha, originBranches, prs, ci, credFile, repoDir, runVars>>

\* A maintainer closes an open pull request without merging it (a merge would
\* also rewrite aio/package.json; the recorded sha is left to Init).
ClosePr ==
  /\ pc = "idle"
  /\ \E i \in 1..Len(prs) :
       /\ prs[i].state = "open"
       /\ prs' = [prs EXCEPT ![i].state = "closed"]
  /\ UNCHANGED <<tipIdx, aioSha, originBranches, ci, credFile, repoDir, runVars>>

Next ==
  \/ StartRun
  \/ CheckNeedsUpgrade
  \/ InitLocalRepo
  \/ ListBranches
  \/ GetOpenPrsPerBranch
  \/ CleanupObsoleteBranches
  \/ CheckExistingPr
  \/ CreateLocalBranch
  \/ MakeChanges
  \/ CommitAndPush
  \/ SubmitPullRequest
  \/ CommentOnSupercededPrs
  \/ DestroyLocalRepo
  \/ CatchBlock
  \/ Return
  \/ AdvanceTip
  \/ ClosePr

Spec == Init /\ [][Next]_vars

\* ------------------------------------------------- the check, on its own
\* The check for a needed upgrade as both entry points run it, on every sha
\* of InputShas against every tip, up to the point where checkAndUpgrade
\* would start its work on the local repository.
InitCheck ==
  /\ tipIdx \in 1..MaxTips
  /\ aioSha \in InputShas
  /\ \E withPr \in BOOLEAN :
       LET sha == Slice(Tip(1), SHA_LEN)
       IN /\ originBranches = {DefaultBranch, ForeignBranch}
                               \cup (IF withPr THEN {LocalBranchName(DefaultBranch, sha)}
                                     ELSE {})
          /\ prs = IF withPr
                   THEN createPullRequest(<<>>, LocalBranchName(DefaultBranch, sha),
                                          CommitMsgSubject(sha))
                   ELSE <<>>
  /\ ci \in BOOLEAN
  /\ credFile = FALSE
  /\ repoDir = FALSE
  /\ pc = "idle"
  /\ currentSha = <<>>
  /\ latestSha = <<>>
  /\ needsUpgrade = FALSE
  /\ destroyed = FALSE
  /\ headBranch = <<>>
  /\ localCommit = <<>>
  /\ relevantBranches = <<>>
  /\ openPrsPerBranch = <<>>
  /\ supercededPrs = <<>>
  /\ newPr = 0
  /\ err = NoError
  /\ thrown = NoError
  /\ result = "none"
  /\ log = <<>>

NextCheck ==
  \/ StartRun
  \/ CheckNeedsUpgrade
  \/ CatchBlock
  \/ StartCheckOnly
  \/ CheckOnly
  \/ CheckOnlyCatch
  \/ Return

SpecCheck == InitCheck /\ [][NextCheck]_vars

\* ------------------------------------------------- shasMatch, on its own
\* Line 119 on every pair of shas of InputShas.
InitShas ==
  /\ tipIdx = 1
  /\ aioSha = OldSha
  /\ originBranches = {DefaultBranch, ForeignBranch}
  /\ prs = <<>>
  /\ ci = FALSE
  /\ credFile = FALSE
  /\ repoDir = FALSE
  /\ pc = "shasMatch"
  /\ currentSha \in InputShas
  /\ latestSha \in InputShas
  /\ needsUpgrade = FALSE
  /\ destroyed = FALSE
  /\ headBranch = <<>>
  /\ localCommit = <<>>
  /\ relevantBranches = <<>>
  /\ openPrsPerBranch = <<>>
  /\ supercededPrs = <<>>
  /\ newPr = 0
  /\ err = NoError
  /\ thrown = NoError
  /\ result = "none"
  /\ log = <<>>

\* `let needsUpgrade = !this.shasMatch(currentSha, latestSha)`
ShasMatch ==
  /\ pc = "shasMatch"
  /\ needsUpgrade' = ~shasMatch(currentSha, latestSha)
  /\ pc' = "shasMatched"
  /\ UNCHANGED <<envVars, currentSha, latestSha, destroyed, headBranch, localCommit,
                 relevantBranches, openPrsPerBranch, supercededPrs, newPr, err, thrown,
                 result, log>>

NextShas == ShasMatch

SpecShas == InitShas /\ [][NextShas]_vars

\* --------------------------------------------------- GitRepo, on its own
\* new Error('Repository already destroyed.')
DestroyedError == "Repository already destroyed."

\* The public operations of GitRepo that run git.
GitMethods == {"addRemote", "checkout", "commit", "config", "deleteRemoteBranch", "fetch",
               "getRemoteBranches", "init", "push", "currentBranch"}

\* The git commands an operation hands to execInRepo, in order.  push is
\* push(remote, opts), which reads currentBranch first; deleteRemoteBranch
\* is push(remote, '', branch), which does not.
GitCommands(method) ==
  CASE method = "addRemote" -> <<"git remote remove", "git remote add">>
    [] method = "checkout" -> <<"git checkout">>
    [] method = "commit" -> <<"git commit">>
    [] method = "config" -> <<"git config">>
    [] method = "deleteRemoteBranch" -> <<"git push">>
    [] method = "fetch" -> <<"git fetch">>
    [] method = "getRemoteBranches" -> <<"git fetch", "git branch">>
    [] method = "init" -> <<"git init">>
    [] method = "push" -> <<"git rev-parse", "git push">>
    [] method = "currentBranch" -> <<"git rev-parse">>

\* execInRepo without the check of `destroyed`.
execInRepoUnchecked(isDestroyed, cmdOk) == IF cmdOk THEN NoError ELSE "exec"

\* The error execInRepo(partialCmd, opts) ends with: it throws before it runs
\* anything if the repository is destroyed, else it runs the command, which
\* throws if it fails.
execInRepo(isDestroyed, cmdOk) ==
  IF isDestroyed THEN DestroyedError ELSE IF cmdOk THEN NoError ELSE "exec"

\* A GitRepo over an existing directory, after construction.
InitGit ==
  /\ tipIdx = 1
  /\ aioSha = OldSha
  /\ originBranches = {DefaultBranch, ForeignBranch}
  /\ prs = <<>>
  /\ ci = FALSE
  /\ credFile = FALSE
  /\ repoDir = TRUE
  /\ pc = "constructed"
  /\ currentSha = <<>>
  /\ latestSha = <<>>
  /\ needsUpgrade = FALSE
  /\ destroyed = FALSE
  /\ headBranch = <<>>
  /\ localCommit = <<>>
  /\ relevantBranches = <<>>
  /\ openPrsPerBranch = <<>>
  /\ supercededPrs = <<>>
  /\ newPr = 0
  /\ err = NoError
  /\ thrown = NoError
  /\ result = "none"
  /\ log = <<>>

\* One call of an operation of GitRepo; pc becomes the name of the operation,
\* err the error it threw, log gains the commands that were run.  failAt is
\* the command that fails if it is run (0: none).
GitCall ==
  /\ pc \in GitMethods \cup {"constructed", "destroy"}
  /\ \E method \in GitMethods :
       LET cmds == GitCommands(method)
       IN \E failAt \in 0..Len(cmds) :
            LET errs == [i \in 1..Len(cmds) |-> execInRepo(destroyed, i # failAt)]
                e == FirstError(errs)
                last == IF e = NoError THEN Len(cmds)
                        ELSE CHOOSE i \in 1..Len(cmds) :
                               errs[i] # NoError /\ \A j \in 1..(i - 1) : errs[j] = NoError
                ran == SelectSeq([i \in 1..last |-> Call(cmds[i], method, errs[i] = NoError)],
                                 LAMBDA c : c.ok \/ e # DestroyedError)
            IN /\ destroyed => failAt = 0
               /\ Len(log) + Len(ran) <= MaxGitCommands
               /\ log' = log \o ran
               /\ err' = e
               /\ thrown' = e
               /\ result' = IF e = NoError THEN "resolved" ELSE "rejected"
               /\ pc' = method
  /\ UNCHANGED <<envVars, currentSha, latestSha, needsUpgrade, destroyed, headBranch,
                 localCommit, relevantBranches, openPrsPerBranch, supercededPrs, newPr>>

\* destroy(): `if (!this.destroyed) { sh.rm('-rf', this.directory);
\* this.destroyed = true; }`; a failing rm throws before the flag is set.
GitDestroy ==
  /\ pc \in GitMethods \cup {"constructed", "destroy"}
  /\ \E rmOk \in BOOLEAN :
       LET e == IF destroyed \/ rmOk THEN NoError ELSE "rm"
       IN /\ destroyed => rmOk
          /\ repoDir' = IF ~destroyed /\ rmOk THEN FALSE ELSE repoDir
          /\ destroyed' = (destroyed \/ rmOk)
          /\ err' = e
          /\ thrown' = e
          /\ result' = IF e = NoError THEN "resolved" ELSE "rejected"
          /\ pc' = "destroy"
  /\ UNCHANGED <<tipIdx, aioSha, originBranches, prs, ci, credFile, currentSha, latestSha,
                 needsUpgrade, headBranch, localCommit, relevantBranches,
                 openPrsPerBranch, supercededPrs, newPr, log>>

NextGit ==
  \/ GitCall
  \/ GitDestroy

SpecGit == InitGit /\ [][NextGit]_vars

\* ===================================================================== claims
\* An open pull request of this automation has branch b of origin as its head.
HasOpenRelevantPr(b) ==
  \E i \in 1..Len(prs) :
    /\ prs[i].head = b
    /\ prs[i].state = "open"
    /\ StartsWith(prs[i].title, COMMIT_MESSAGE_PREFIX)

\* The calls by which a run makes new work.
NewWorkOps == {"fetchUpstream", "checkout", "sed", "commit", "fetchOrigin", "push",
               "createPullRequest"}

\* The steps whose failure is fatal to the run.
FatalOps == {"initLocalRepo", "getRemoteBranches", "getPullRequests", "fetchUpstream",
             "checkout", "commit", "fetchOrigin", "push", "createPullRequest"}

NumCalls(op) == Cardinality({i \in 1..Len(log) : log[i].op = op})

\* C1: when needsUpgrade is true and the branch->open-PR map holds the
\* automation branch of latestSha, the run fetches nothing from upstream,
\* creates no local branch, commits and pushes nothing, creates no pull
\* request, and returns without error.
C1_ExistingPrStopsRun ==
  (pc = "done" /\ needsUpgrade /\ Includes(MapKeys(openPrsPerBranch), localBranch))
    => /\ \A i \in 1..Len(log) : log[i].op \notin NewWorkOps
       /\ result = "resolved"

\* C2: whatever runs have happened, failed or not, and however the upstream
\* tip moved between them, no two open pull requests of this automation have
\* the same automation branch as their head.
C2_AtMostOneOpenPrPerBranch ==
  \A i, j \in 1..Len(prs) :
    ( /\ prs[i].head = prs[j].head
      /\ prs[i].state = "open" /\ prs[j].state = "open"
      /\ StartsWith(prs[i].title, COMMIT_MESSAGE_PREFIX)
      /\ StartsWith(prs[j].title, COMMIT_MESSAGE_PREFIX) ) => i = j

\* A run found the open pull request of an earlier run for the same sha and
\* stopped.
C2_Witness ==
  /\ pc = "done"
  /\ result = "resolved"
  /\ Called("reportExisting")
  /\ HasOpenRelevantPr(localBranch)

\* C3: when a run reaches the check for an existing pull request, and when it
\* starts the upstream fetch, no branch of origin that starts with the
\* automation prefix is without an open pull request of this automation: all
\* of them have been deleted, and every deletion precedes the check and every
\* call that makes new work.
C3_ObsoleteDeletedFirst ==
  /\ pc \in {"existing", "createBranch"}
       => \A b \in originBranches : IsRelevantBranch(b) => HasOpenRelevantPr(b)
  /\ \A j \in 1..Len(log) :
       log[j].op \in NewWorkOps \cup {"reportExisting"}
         => \A i \in j..Len(log) : log[i].op # "deleteRemoteBranch"
  /\ Called("fetchUpstream")
       => \A k \in 1..Len(relevantBranches) :
            (\A n \in 1..Len(prs) :
               prs[n].head = relevantBranches[k] /\ prs[n].state = "open"
               /\ StartsWith(prs[n].title, COMMIT_MESSAGE_PREFIX) => n = newPr)
              => \E i \in 1..Len(log) :
                   /\ log[i].op = "deleteRemoteBranch"
                   /\ log[i].arg = relevantBranches[k]
                   /\ log[i].ok

\* A run is about to create its branch after deleting two obsolete branches.
C3_Witness ==
  /\ pc = "createBranch"
  /\ NumCalls("deleteRemoteBranch") >= 2
  /\ \A i \in 1..Len(log) : log[i].ok

\* C4: when the deletion of an obsolete branch fails, the deletion of every
\* other obsolete branch is still attempted, and the failure neither sends
\* the run to its catch block nor becomes the error the run rejects with.
C4_DeletionIsBestEffort ==
  (\E i \in 1..Len(log) : log[i].op = "deleteRemoteBranch" /\ ~log[i].ok)
    => /\ err # "deleteRemoteBranch"
       /\ thrown # "deleteRemoteBranch"
       /\ LET obsolete ==
                SelectSeq(relevantBranches,
                          LAMBDA b : ~Includes(MapKeys(openPrsPerBranch), b))
          IN \A k \in 1..Len(obsolete) :
               \E i \in 1..Len(log) :
                 log[i].op = "deleteRemoteBranch" /\ log[i].arg = obsolete[k]

\* C5: when a fatal step fails, checkAndUpgrade rejects with the error of that
\* step, after it tried to remove the credentials file; a failure of that
\* removal or of filing the issue does not replace the error; and an issue is
\* filed only on CI.
C5_FatalErrorRethrown ==
  /\ pc = "done"
       => \A i \in 1..Len(log) :
            (log[i].op \in FatalOps /\ ~log[i].ok)
              => /\ result = "rejected"
                 /\ thrown = log[i].op
                 /\ \E k \in (i + 1)..Len(log) : log[k].op = "rmCredentials"
  /\ Called("createIssue") => ci

\* A push failed, and so did the removal of the credentials file and the
\* filing of the issue.
C5_Witness ==
  /\ pc = "done"
  /\ thrown = "push"
  /\ \E i \in 1..Len(log) : log[i].op = "rmCredentials" /\ ~log[i].ok
  /\ \E i \in 1..Len(log) : log[i].op = "createIssue" /\ ~log[i].ok

\* C6: a run that created a local working copy and returns without error has
\* attempted to destroy it, the return for an existing pull request included.
C6_DestroyedOnSuccess ==
  (pc = "done" /\ result = "resolved" /\ CalledOk("initLocalRepo")) => Called("destroy")

\* C7: a run that fails at a fatal step after creating the local working copy
\* attempts to destroy it on the failure path, and still rejects with the
\* primary error.
C7_DestroyedOnFailure ==
  (pc = "done" /\ result = "rejected" /\ CalledOk("initLocalRepo"))
    => Called("destroy") /\ thrown = err

\* The numbers of the open pull requests of this automation, branch by branch
\* in the order origin's branches were listed, that existed before this run's.
ExpectedCloses ==
  Flatten([k \in 1..Len(relevantBranches) |->
             LET open == SelectSeq(prs, LAMBDA pr :
                           /\ pr.head = relevantBranches[k]
                           /\ pr.state = "open"
                           /\ StartsWith(pr.title, COMMIT_MESSAGE_PREFIX)
                           /\ pr.number # newPr)
             IN [i \in 1..Len(open) |-> open[i].number]])

\* C8: the commit message is the subject COMMIT_MESSAGE_PREFIX + latestSha,
\* followed, if there are superceded pull requests, by an empty line and one
\* line 'Closes #N' for each of them, none twice, in the order their branches
\* were listed; without superceded pull requests it is the subject alone.
C8_CommitMessage ==
  localCommit # <<>>
    => LET nums == ExpectedCloses
           subject == COMMIT_MESSAGE_PREFIX \o Slice(Tip(tipIdx), SHA_LEN)
       IN /\ localCommit[1] = subject
          /\ \A i, j \in 1..Len(nums) : nums[i] = nums[j] => i = j
          /\ localCommit = IF nums = <<>> THEN <<subject>>
                           ELSE <<subject, <<>>>>
                                \o [i \in 1..Len(nums) |-> <<"Closes #", nums[i]>>]

\* A commit that closes two pull requests, the later one listed first.
C8_Witness ==
  /\ Len(localCommit) = 4
  /\ localCommit[3][2] > localCommit[4][2]

\* C9: the run removes from origin no branch that is the head of an open pull
\* request of this automation; and when it has created a new pull request,
\* every other such pull request whose branch is on origin has a comment call
\* naming the new one and a 'Closes #N' line in the commit, and every
\* automation branch left on origin has an open pull request.
C9_OpenPrBranchesSurvive ==
  /\ [][\A b \in originBranches \ originBranches' : ~HasOpenRelevantPr(b)]_vars
  /\ [](pc = "done" /\ newPr # 0
          => /\ \A n \in 1..Len(prs) :
                  ( /\ n # newPr
                    /\ prs[n].state = "open"
                    /\ StartsWith(prs[n].title, COMMIT_MESSAGE_PREFIX)
                    /\ prs[n].head \in originBranches
                    /\ IsRelevantBranch(prs[n].head) )
                  => /\ \E i \in 1..Len(log) :
                          log[i].op = "comment" /\ log[i].arg = <<n, newPr>>
                     /\ \E l \in 1..Len(localCommit) : localCommit[l] = <<"Closes #", n>>
             /\ \A b \in originBranches : IsRelevantBranch(b) => HasOpenRelevantPr(b))

\* A run deleted a branch without pull request, kept the branch of an open
\* pull request, created its own and commented on the open one.
C9_Witness ==
  /\ pc = "done"
  /\ newPr # 0
  /\ CalledOk("deleteRemoteBranch")
  /\ CalledOk("comment")
  /\ \E n \in 1..Len(prs) : n # newPr /\ prs[n].state = "open" /\ prs[n].head \in originBranches

\* C10: every pull request the run listed as open is still open, with the head
\* and title it had, at every later point of the run: the run changes nothing
\* of it but its comments.
C10_SupercededPrsStayOpen ==
  \A k \in 1..Len(openPrsPerBranch) :
    \A i \in 1..Len(openPrsPerBranch[k].prs) :
      LET listed == openPrsPerBranch[k].prs[i]
      IN /\ listed.number \in 1..Len(prs)
         /\ prs[listed.number].state = "open"
         /\ prs[listed.number].head = listed.head
         /\ prs[listed.number].title = listed.title

\* A run has ended after commenting on a pull request it superceded.
C10_Witness ==
  /\ pc = "done"
  /\ result = "resolved"
  /\ \E i \in 1..Len(supercededPrs) :
       <<"Superceded by #", newPr>> \in prs[supercededPrs[i].number].comments

\* C11: once the run has created its pull request, a comment call is made for
\* every superceded pull request, whichever of these calls are rejected; and
\* no rejected comment call sends the run to its catch block: the run resolves
\* and reports the new pull request.
C11_CommentsFanOut ==
  (CalledOk("createPullRequest") /\ pc \in {"destroy", "catch", "done"})
    => /\ \A k \in 1..Len(supercededPrs) :
            \E i \in 1..Len(log) :
              log[i].op = "comment" /\ log[i].arg = <<supercededPrs[k].number, newPr>>
       /\ NumCalls("comment") = Len(supercededPrs)
       /\ err = NoError
       /\ pc = "done"
            => /\ result = "resolved"
               /\ \E i \in 1..Len(log) : log[i].op = "reportSuccess" /\ log[i].arg = newPr

\* A run resolved although the comment on the first superceded pull request
\* was rejected; the comment on a later one was still made.
C11_Witness ==
  /\ pc = "done"
  /\ result = "resolved"
  /\ \E i, j \in 1..Len(log) :
       /\ i < j
       /\ log[i].op = "comment" /\ ~log[i].ok
       /\ log[j].op = "comment"

\* C12: when createPullRequest succeeded and addLabels was rejected, the run
\* has the created pull request as its new one, does not enter its catch
\* block, goes on to comment on every superceded pull request and to destroy
\* the working copy, and resolves reporting the number of the created one.
C12_LabelFailureIgnored ==
  \A i \in 1..Len(log) :
    (log[i].op = "addLabels" /\ ~log[i].ok)
      => /\ newPr = log[i].arg
         /\ newPr \in 1..Len(prs)
         /\ prs[newPr].head = localBranch
         /\ err = NoError
         /\ pc \in {"comment", "destroy", "done"}
         /\ pc \in {"destroy", "done"} => NumCalls("comment") = Len(supercededPrs)
         /\ pc = "done"
              => /\ Called("destroy")
                 /\ result = "resolved"
                 /\ \E k \in 1..Len(log) :
                      log[k].op = "reportSuccess" /\ log[k].arg = log[i].arg

\* A run resolved after addLabels was rejected and a comment was posted.
C12_Witness ==
  /\ pc = "done"
  /\ result = "resolved"
  /\ \E i \in 1..Len(log) : log[i].op = "addLabels" /\ ~log[i].ok
  /\ CalledOk("comment")

\* The calls that change something on a remote.
RemoteWriteOps == {"deleteRemoteBranch", "push", "createPullRequest", "addLabels",
                   "comment", "createIssue"}

\* The states of a run of checkOnly.
CheckOnlyPcs == {"checkOnly", "checkOnlyCatch", "checkOnlyDone"}

\* C13 as stated: a run of checkOnly, whether it succeeds or fails, makes no
\* call that changes a remote: it deletes no branch, pushes nothing, and
\* creates no pull request, comment, label or issue.
C13_CheckOnlyNoRemoteWrite ==
  pc \in CheckOnlyPcs => \A i \in 1..Len(log) : log[i].op \notin RemoteWriteOps

\* C13, amended: no step of a run of checkOnly changes the branches of origin
\* or the pull requests, and the run deletes no branch, pushes nothing and
\* creates no pull request, comment or label; the one remote write it can
\* make is a single issue, filed on CI only, after its check has failed and
\* before it rejects with the error of the check.
C13_CheckOnlyFilesOnlyAnIssue ==
  /\ [][(pc \in CheckOnlyPcs) => (originBranches' = originBranches /\ prs' = prs)]_vars
  /\ [](pc \in CheckOnlyPcs
          => /\ \A i \in 1..Len(log) :
                  /\ log[i].op \notin RemoteWriteOps \ {"createIssue"}
                  /\ log[i].op = "createIssue"
                       => /\ ci
                          /\ i = Len(log)
                          /\ \E k \in 1..(i - 1) : ~log[k].ok
                          /\ result = "rejected"
                          /\ thrown = err
                          /\ err # NoError
             /\ NumCalls("createIssue") <= 1)

\* A run of checkOnly failed at a request and filed an issue about it.
C13_Witness ==
  /\ pc = "checkOnlyDone"
  /\ result = "rejected"
  /\ CalledOk("createIssue")

\* C14: the branches of origin whose names do not start with the automation
\* prefix are never deleted: they stay on origin whatever the runs do; and
\* every deletion and every push a run makes names a branch that starts with
\* the prefix.
C14_ForeignBranchesUntouched ==
  /\ {DefaultBranch, ForeignBranch} \subseteq originBranches
  /\ \A b \in originBranches :
       ~StartsWith(b, LOCAL_BRANCH_PREFIX) => b \in {DefaultBranch, ForeignBranch}
  /\ \A i \in 1..Len(log) :
       log[i].op \in {"deleteRemoteBranch", "push"}
         => StartsWith(log[i].arg, LOCAL_BRANCH_PREFIX)

\* A run has deleted an obsolete branch and pushed its own.
C14_Witness ==
  /\ CalledOk("deleteRemoteBranch")
  /\ CalledOk("push")
  /\ ForeignBranch \in originBranches

\* a is the text b starts with, or b the text a starts with.
OneIsPrefixOfOther(a, b) ==
  \/ \E n \in 0..Len(b) : a = SubSeq(b, 1, n)
  \/ \E n \in 0..Len(a) : b = SubSeq(a, 1, n)

\* The sha of the tip as the check uses it: its first SHA_LEN digits.
TruncatedTip == SubSeq(Tip(tipIdx), 1, SHA_LEN)

\* The check of this run has returned its results.
CheckReturned == pc \in {"init", "done", "checkOnlyDone"} /\ err = NoError

\* C15: when the check returns, needsUpgrade is true exactly if the recorded
\* sha and the truncated tip are not equivalent and one of the changed files
\* the remote answered with has a path that starts with 'help/'; the shas it
\* returns are the recorded one and the truncated tip.
C15_NeedsUpgradeIffHelpChanged ==
  CheckReturned
    => /\ currentSha = aioSha
       /\ latestSha = TruncatedTip
       /\ needsUpgrade
            <=> /\ ~OneIsPrefixOfOther(aioSha, TruncatedTip)
                /\ \E i \in 1..Len(log) :
                     /\ log[i].op = "getAffectedFiles"
                     /\ \E k \in 1..Len(log[i].arg) : Head(log[i].arg[k]) = "help/"

\* checkAndUpgrade goes on to its work after an answer with a file under
\* help/ for shas that differ.
C15_Witness ==
  /\ pc = "init"
  /\ needsUpgrade
  /\ \E i \in 1..Len(log) :
       log[i].op = "getAffectedFiles" /\ Includes(log[i].arg, HelpFile)

\* C16: when the recorded sha and the truncated tip are equivalent and the
\* check returns, needsUpgrade is false and getAffectedFiles was not called;
\* checkAndUpgrade has then resolved after its two reads: it has made no
\* working copy, written no credentials and made no call that writes to a
\* remote.
C16_EquivalentShasNoWork ==
  (CheckReturned /\ OneIsPrefixOfOther(aioSha, TruncatedTip))
    => /\ ~needsUpgrade
       /\ ~Called("getAffectedFiles")
       /\ pc # "init"
       /\ pc = "done"
            => /\ result = "resolved"
               /\ Len(log) = 2
               /\ log[1].op = "getFileContents" /\ log[2].op = "getLatestSha"
               /\ ~repoDir /\ ~credFile

\* checkAndUpgrade resolved on a recorded sha that is longer than SHA_LEN
\* and starts with the truncated tip.
C16_Witness ==
  /\ pc = "done"
  /\ result = "resolved"
  /\ Len(currentSha) > Len(latestSha)
  /\ latestSha = SubSeq(currentSha, 1, Len(latestSha))
  /\ latestSha # <<>>

\* C17: shasMatch answers true on a sha and itself, and answers the same on
\* two shas in either order, be they of equal length or not.
C17_ShasMatchReflexiveSymmetric ==
  /\ shasMatch(currentSha, currentSha)
  /\ shasMatch(latestSha, latestSha)
  /\ pc = "shasMatched" => (needsUpgrade = ~shasMatch(latestSha, currentSha))

\* shasMatch has answered true on two shas of unequal length, the longer
\* one given first.
C17_Witness ==
  /\ pc = "shasMatched"
  /\ ~needsUpgrade
  /\ Len(currentSha) > Len(latestSha)

\* C18: a query is made for every candidate branch, whichever of them are
\* rejected; and when all have resolved, in whatever order, the keys of the
\* map are the candidate branches that have an open pull request of this
\* automation, in the order of the candidates, and each key has exactly the
\* open pull requests of this automation whose head is that branch.
C18_OpenPrsPerBranch ==
  /\ (pc = "cleanup" \/ (pc = "catch" /\ err = "getPullRequests"))
       => /\ NumCalls("getPullRequests") = Len(relevantBranches)
          /\ \A k \in 1..Len(relevantBranches) :
               \E i \in 1..Len(log) :
                 log[i].op = "getPullRequests" /\ log[i].arg = relevantBranches[k]
  /\ pc = "cleanup"
       => /\ MapKeys(openPrsPerBranch) = SelectSeq(relevantBranches, HasOpenRelevantPr)
          /\ \A k \in 1..Len(openPrsPerBranch) :
               openPrsPerBranch[k].prs =
                 SelectSeq(prs, LAMBDA pr :
                   /\ pr.head = openPrsPerBranch[k].branch
                   /\ pr.state = "open"
                   /\ StartsWith(pr.title, COMMIT_MESSAGE_PREFIX))

\* Three candidate branches were listed, the one without open pull request
\* not last; the map has the other two, the later pull request's first.
C18_Witness ==
  /\ pc = "cleanup"
  /\ Len(relevantBranches) = 3
  /\ Len(openPrsPerBranch) = 2
  /\ relevantBranches[3] = openPrsPerBranch[2].branch
  /\ openPrsPerBranch[1].prs[1].number > openPrsPerBranch[2].prs[1].number

\* C19: once destroy() has set the repository destroyed, every step leaves it
\* destroyed and runs no command: each of the ten operations throws
\* 'Repository already destroyed.', whatever was called before, and a further
\* destroy() returns without error and changes nothing.
C19_DestroyedRepoRefusesAll ==
  [][destroyed
       => /\ destroyed'
          /\ log' = log
          /\ repoDir' = repoDir
          /\ pc' \in GitMethods => (err' = DestroyedError /\ result' = "rejected")
          /\ pc' = "destroy" => (err' = NoError /\ result' = "resolved")]_vars

\* push was called on a destroyed repository that had run commands before,
\* and threw.
C19_Witness ==
  /\ destroyed
  /\ pc = "push"
  /\ err = DestroyedError
  /\ Len(log) = MaxGitCommands

\* The write steps of a run, in the order the claim gives them.
WriteOrder == <<"fetchUpstream", "checkout", "sed", "commit", "fetchOrigin", "push",
                "createPullRequest", "addLabels", "comment", "destroy">>
WriteSteps == {WriteOrder[k] : k \in 1..Len(WriteOrder)}
RankOf == [op \in WriteSteps |-> CHOOSE k \in 1..Len(WriteOrder) : WriteOrder[k] = op]

\* C20: the write steps of a run are made in the order upstream fetch,
\* checkout, file change, commit, unshallow fetch of origin, forced push,
\* createPullRequest, addLabels, comments, destruction of the working copy:
\* the first write step is the upstream fetch, and each write step is
\* followed by the next of the order, a comment also by another comment,
\* and addLabels also by the destruction when there is nothing to comment
\* on.  After a failed step up to the push there is neither a
\* createPullRequest nor a comment call; after a failed createPullRequest
\* there is no comment call.
C20_WriteStepsInOrder ==
  LET steps == SelectSeq(log, LAMBDA c : c.op \in WriteSteps)
  IN /\ steps # <<>> => steps[1].op = "fetchUpstream"
     /\ \A i \in 1..(Len(steps) - 1) :
          \/ RankOf[steps[i + 1].op] = RankOf[steps[i].op] + 1
          \/ steps[i].op = "comment" /\ steps[i + 1].op = "comment"
          \/ /\ steps[i].op = "addLabels" /\ steps[i + 1].op = "destroy"
             /\ supercededPrs = <<>>
     /\ \A i \in 1..Len(steps) :
          ~steps[i].ok
            => /\ RankOf[steps[i].op] <= RankOf["push"]
                    => \A k \in 1..Len(steps) :
                         steps[k].op \notin {"createPullRequest", "comment"}
               /\ steps[i].op = "createPullRequest"
                    => \A k \in 1..Len(steps) : steps[k].op # "comment"

\* A run has made every write step, two comments among them.
C20_Witness ==
  /\ pc = "done"
  /\ \A k \in 1..Len(WriteOrder) : Called(WriteOrder[k])
  /\ NumCalls("comment") = 2

\* C21: on CI, when a run that initialized the working copy has returned
\* without error, be it after creating a pull request or after finding the
\* one that exists, the credentials file is still there and its removal was
\* not attempted; the removal is attempted in the catch block only, by a run
\* that rejects.
C21_CredentialsKeptOnSuccess ==
  /\ (ci /\ pc = "done" /\ result = "resolved" /\ CalledOk("initLocalRepo"))
       => credFile /\ ~Called("rmCredentials")
  /\ Called("rmCredentials")
       => err # NoError /\ pc = "done" /\ result = "rejected"

\* A run on CI created its pull request and resolved; the credentials file
\* is on disk.
C21_Witness ==
  /\ ci
  /\ pc = "done"
  /\ result = "resolved"
  /\ newPr # 0
  /\ credFile

====
